---- MODULE Spec2Model ----
(***************************************************************************)
(* Model of posenet/src/posenet_model.ts: load / loadResNet /              *)
(* loadMobileNet / mobilenetLoader.load, PoseNet.estimatePoses and         *)
(* PoseNet.dispose.                                                        *)
(*                                                                         *)
(* JavaScript runs each async function to completion between two awaits,   *)
(* so every action below is one such run-to-completion segment.            *)
(* Numbers are exact rationals <<numerator, denominator>>; floating-point  *)
(* rounding of the JavaScript doubles is not modelled.  Scores are in      *)
(* tenths (0.5 is 5), multipliers in hundredths (0.75 is 75).              *)
(***************************************************************************)
EXTENDS Integers, Sequences, FiniteSets, TLC

VARIABLES tfRuntime, loadCall, model, tensors, pc, args, frames, result,
          trace, disposals, disposeRaised

vars == <<tfRuntime, loadCall, model, tensors, pc, args, frames, result,
          trace, disposals, disposeRaised>>

(***************************************************************************)
(* Bounds of the model.                                                    *)
(***************************************************************************)
NumCalls == 2
MaxDisposals == 2
MaxCandidates == 2

Calls == 1..NumCalls

(***************************************************************************)
(* Values a caller can put in a ModelConfig.  The TypeScript types are     *)
(* erased at run time, which is why the loaders assert on the values; the  *)
(* sets hold supported and unsupported values of every field.              *)
(***************************************************************************)
Architectures == {"ResNet50", "MobileNetV1", "Other"}
OutputStrides == {8, 16, 32, 64}
Resolutions == {161, 250, 257, 513}
Undefined == [type |-> "undefined"]
Number(v) == [type |-> "number", value |-> v]
Multipliers == {Undefined} \cup {Number(v) : v \in {30, 50, 75, 100, 101}}

ModelConfig == [architecture : Architectures, outputStride : OutputStrides,
                inputResolution : Resolutions, multiplier : Multipliers]

DEFAULT_RESNET_CONFIG ==
    [architecture |-> "ResNet50", outputStride |-> 32,
     inputResolution |-> 257, multiplier |-> Number(100)]

DEFAULT_MOBILENET_V1_CONFIG ==
    [architecture |-> "MobileNetV1", outputStride |-> 16,
     inputResolution |-> 513, multiplier |-> Number(75)]

NoValue == [kind |-> "none"]
NullValue == [kind |-> "null"]
ErrorValue(msg) == [kind |-> "error", message |-> msg]

(***************************************************************************)
(* Number.prototype.toString on the multipliers (hundredths -> text).      *)
(***************************************************************************)
NumberToString(m) ==
    CASE m = 101 -> "1.01"
      [] m = 100 -> "1"
      [] m = 75 -> "0.75"
      [] m = 50 -> "0.5"
      [] m = 30 -> "0.3"
      [] OTHER -> "NaN"

\* Object.keys(checkpoints): the multipliers that have a checkpoint.
possibleMultipliers == {"1.01", "1", "0.75", "0.5"}

\* resnet50_checkpoints[inputResolution][outputStride]
resnet50_checkpoints ==
    [r \in {257, 513} |-> [s \in {32} |-> <<"resnet50", r, s>>]]

(***************************************************************************)
(* The checks of loadResNet, in the order of the code.  "ok" or the error. *)
(***************************************************************************)
LoadResNetChecks(tfr, config) ==
    IF tfr = "null" THEN ErrorValue("Cannot find TensorFlow.js")
    ELSE IF config.outputStride \notin {32}
         THEN ErrorValue("invalid stride value")
    ELSE IF config.inputResolution \notin {513, 257}
         THEN ErrorValue("invalid resolution value")
    ELSE NoValue

(***************************************************************************)
(* The checks of loadMobileNet, in the order of the code.                  *)
(***************************************************************************)
LoadMobileNetChecks(tfr, config) ==
    IF tfr = "null" THEN ErrorValue("Cannot find TensorFlow.js")
    ELSE IF config.multiplier.type # "number"
         THEN ErrorValue("got multiplier type of undefined")
    ELSE IF NumberToString(config.multiplier.value) \notin possibleMultipliers
         THEN ErrorValue("invalid multiplier value")
    ELSE NoValue

\* new ResNet(graphModel, inputResolution, outputStride)
NewResNet(config) ==
    [kind |-> "ResNet", inputResolution |-> config.inputResolution,
     outputStride |-> config.outputStride]

\* new MobileNet(weights, architecture, inputResolution, outputStride)
NewMobileNet(config) ==
    [kind |-> "MobileNet", inputResolution |-> config.inputResolution,
     outputStride |-> config.outputStride]

\* new PoseNet(net)
NewPoseNet(net) == [kind |-> "PoseNet", baseModel |-> net]

WeightsTensor == [owner |-> 0, name |-> "weights", data |-> <<>>]

IdleLoad == [pc |-> "idle", config |-> NoValue, steps |-> <<>>,
             net |-> NoValue, result |-> NoValue]

(***************************************************************************)
(* load(config), up to the first await of the loader it dispatches to.     *)
(* The caller loads while it holds no model.                               *)
(***************************************************************************)
LoadResNetStartLate(config) ==
    /\ config.architecture = "ResNet50"
    /\ LET check == LoadResNetChecks(tfRuntime, config) IN
       IF check # NoValue
       THEN loadCall' = [loadCall EXCEPT !.pc = "rejected",
                            !.config = config,
                            !.steps = <<"loadGraphModel">>,
                            !.result = check]
       ELSE loadCall' = [loadCall EXCEPT !.pc = "awaitGraphModel",
                            !.config = config,
                            !.steps = <<"loadGraphModel">>]

LoadResNetStart(config) ==
    /\ config.architecture = "ResNet50"
    /\ LET check == LoadResNetChecks(tfRuntime, config) IN
       IF check # NoValue
       THEN loadCall' = [loadCall EXCEPT !.pc = "rejected",
                            !.config = config, !.result = check]
       ELSE loadCall' = [loadCall EXCEPT !.pc = "awaitGraphModel",
                            !.config = config,
                            !.steps = <<"loadGraphModel">>]

LoadMobileNetStart(config) ==
    /\ config.architecture = "MobileNetV1"
    /\ LET check == LoadMobileNetChecks(tfRuntime, config) IN
       IF check # NoValue
       THEN loadCall' = [loadCall EXCEPT !.pc = "rejected",
                            !.config = config, !.result = check]
       ELSE loadCall' = [loadCall EXCEPT !.pc = "awaitVariables",
                            !.config = config,
                            !.steps = <<"getAllVariables">>]

LoadOtherStart(config) ==
    /\ config.architecture \notin {"ResNet50", "MobileNetV1"}
    /\ loadCall' = [loadCall EXCEPT !.pc = "resolved", !.config = config,
                       !.result = NullValue]

Load ==
    /\ loadCall.pc = "idle"
    /\ model = NoValue
    /\ \E config \in ModelConfig :
          \/ LoadResNetStart(config)
          \/ LoadMobileNetStart(config)
          \/ LoadOtherStart(config)
    /\ UNCHANGED <<tfRuntime, model, tensors, pc, args, frames, result,
                   trace, disposals, disposeRaised>>

\* loadResNet after `await tf.loadGraphModel(...)`
LoadResNetResume ==
    /\ loadCall.pc = "awaitGraphModel"
    /\ loadCall' = [loadCall EXCEPT !.pc = "resolved",
                       !.steps = Append(@, "newResNet"),
                       !.result = NewPoseNet(NewResNet(loadCall.config))]
    /\ tensors' = tensors \cup {WeightsTensor}
    /\ UNCHANGED <<tfRuntime, model, pc, args, frames, result, trace,
                   disposals, disposeRaised>>

\* mobilenetLoader.load after `await checkpointLoader.getAllVariables()`
MobilenetLoaderResume ==
    /\ loadCall.pc = "awaitVariables"
    /\ loadCall' = [loadCall EXCEPT !.pc = "awaitMobileNet",
                       !.steps = Append(@, "newMobileNet"),
                       !.net = NewMobileNet(loadCall.config)]
    /\ tensors' = tensors \cup {WeightsTensor}
    /\ UNCHANGED <<tfRuntime, model, pc, args, frames, result, trace,
                   disposals, disposeRaised>>

\* loadMobileNet after `await mobilenetLoader.load(config)`
LoadMobileNetResume ==
    /\ loadCall.pc = "awaitMobileNet"
    /\ loadCall' = [loadCall EXCEPT !.pc = "resolved",
                       !.result = NewPoseNet(loadCall.net)]
    /\ UNCHANGED <<tfRuntime, model, tensors, pc, args, frames, result,
                   trace, disposals, disposeRaised>>

\* The caller's continuation: it keeps the value load resolved to.
LoadSettled ==
    /\ loadCall.pc \in {"resolved", "rejected"}
    /\ model' = IF loadCall.pc = "resolved" /\ loadCall.result.kind = "PoseNet"
                THEN loadCall.result ELSE model
    /\ loadCall' = IdleLoad
    /\ UNCHANGED <<tfRuntime, tensors, pc, args, frames, result, trace,
                   disposals, disposeRaised>>

(***************************************************************************)
(* Exact rational arithmetic on <<numerator, denominator>>.                *)
(***************************************************************************)
Rat(n) == <<n, 1>>
RatPlusInt(a, k) == <<a[1] + k * a[2], a[2]>>
IntMinusRat(k, a) == <<k * a[2] - a[1], a[2]>>
RatTimes(a, b) == <<a[1] * b[1], a[2] * b[2]>>
RatEq(a, b) == a[1] * b[2] = b[1] * a[2]
\* a rounded to one decimal, in tenths (half up; a >= 0)
RoundTenths(a) == (20 * a[1] + a[2]) \div (2 * a[2])

Min(a, b) == IF a <= b THEN a ELSE b

(***************************************************************************)
(* Inference configurations.                                               *)
(***************************************************************************)
SINGLE_PERSON_INFERENCE_CONFIG ==
    [flipHorizontal |-> FALSE, decodingMethod |-> "single-person"]

MULTI_PERSON_INFERENCE_CONFIG ==
    [flipHorizontal |-> FALSE, decodingMethod |-> "multi-person",
     maxDetections |-> 5, scoreThreshold |-> 5, nmsRadius |-> 20]

InferenceConfigs ==
    {MULTI_PERSON_INFERENCE_CONFIG, SINGLE_PERSON_INFERENCE_CONFIG,
     [flipHorizontal |-> TRUE, decodingMethod |-> "single-person"],
     [flipHorizontal |-> TRUE, decodingMethod |-> "multi-person",
      maxDetections |-> 1, scoreThreshold |-> 7, nmsRadius |-> 20]}

(***************************************************************************)
(* Inputs.  An image is abstracted to what the code and its collaborators  *)
(* read from it: its dimensions (getInputTensorDimensions), the padding    *)
(* the pad/resize step reports for it, and the candidate poses the network *)
(* and decoder find in it, in resized space and decreasing score order.    *)
(***************************************************************************)
Keypoint(score, part, y, x) ==
    [score |-> score, part |-> part, position |-> [y |-> y, x |-> x]]

PoseA ==
    [score |-> 8,
     keypoints |-> <<Keypoint(8, "nose", Rat(100), Rat(100)),
                     Keypoint(7, "leftEye", Rat(0), Rat(7))>>]

\* a pose whose keypoint is the centre of an r x r frame
CentrePose(r) ==
    [score |-> 6, keypoints |-> <<Keypoint(6, "nose", <<r, 2>>, <<r, 2>>)>>]

LowPose ==
    [score |-> 2, keypoints |-> <<Keypoint(2, "nose", Rat(1), Rat(2))>>]

EmptyPose == [score |-> 0, keypoints |-> <<>>]

CandidatePoses == {PoseA, LowPose} \cup {CentrePose(r) : r \in {161, 257, 513}}

Sorted(seq) ==
    \A i \in 1..(Len(seq) - 1) : seq[i].score >= seq[i + 1].score

Candidates ==
    {seq \in UNION {[1..k -> CandidatePoses] : k \in 0..MaxCandidates} :
        Sorted(seq)}

ImageSizes == {<<480, 640>>, <<3, 5>>}
Paddings == {<<<<0, 0>>, <<0, 0>>>>, <<<<0, 52>>, <<0, 0>>>>,
             <<<<1, 1>>, <<0, 0>>>>, <<<<0, 0>>, <<2, 1>>>>}

Inputs ==
    [size : ImageSizes, paddedBy : Paddings, candidates : Candidates]

\* the inputs and configurations of the interleaved calls
CallInputs ==
    {[size |-> <<480, 640>>, paddedBy |-> <<<<0, 52>>, <<0, 0>>>>,
      candidates |-> <<PoseA>>],
     [size |-> <<3, 5>>, paddedBy |-> <<<<1, 1>>, <<0, 0>>>>,
      candidates |-> <<CentrePose(257), LowPose>>]}

CallConfigs ==
    {MULTI_PERSON_INFERENCE_CONFIG,
     [flipHorizontal |-> TRUE, decodingMethod |-> "single-person"]}

(***************************************************************************)
(* Collaborators of estimatePoses.                                         *)
(***************************************************************************)
VALID_OUTPUT_STRIDES == {8, 16, 32}

AssertValidOutputStride(outputStride) ==
    IF outputStride \in VALID_OUTPUT_STRIDES THEN NoValue
    ELSE ErrorValue("outputStride is invalid")

AssertValidResolution(resolution, outputStride) ==
    IF (resolution - 1) % outputStride = 0 THEN NoValue
    ELSE ErrorValue("resolution is invalid for output stride")

GetInputTensorDimensions(input) == input.size

Tensor(c, name, data) == [owner |-> c, name |-> name, data |-> data]

PadAndResizeTo(c, input, target) ==
    [resized |-> Tensor(c, "resized", <<>>), paddedBy |-> input.paddedBy,
     intermediates |-> {Tensor(c, "imageTensor", <<>>),
                        Tensor(c, "padded", <<>>)}]

\* baseModel.predict(resized): the four named output tensors
Predict(baseModel, c, input) ==
    [heatmapScores |-> Tensor(c, "heatmapScores", input.candidates),
     offsets |-> Tensor(c, "offsets", input.candidates),
     displacementFwd |-> Tensor(c, "displacementFwd", input.candidates),
     displacementBwd |-> Tensor(c, "displacementBwd", input.candidates)]

\* tf.tidy(fn): every tensor fn allocated is released, except those returned
Tidy(allocated, returned) == returned

ToTensorBuffers3D(ts) == [i \in 1..Len(ts) |-> ts[i].data]

\* the greedy decoder: candidates in decreasing score order, thresholded
\* and capped (suppression within nmsRadius is already in the candidates)
DecodeMultiplePoses(scoresBuffer, offsetsBuffer, fwdBuffer, bwdBuffer, outputStride, maxPoseDetections, scoreThreshold, nmsRadius) ==
    LET Passes(p) == p.score >= scoreThreshold
        passing == SelectSeq(scoresBuffer, Passes)
    IN SubSeq(passing, 1, Min(Len(passing), maxPoseDetections))

DecodeSinglePose(heatmapScores, offsets, outputStride) ==
    IF heatmapScores.data = <<>> THEN EmptyPose ELSE heatmapScores.data[1]

ScaleKeypoint(kp, scaleY, scaleX, offsetY, offsetX) ==
    [kp EXCEPT !.position =
        [y |-> RatTimes(RatPlusInt(kp.position.y, offsetY), scaleY),
         x |-> RatTimes(RatPlusInt(kp.position.x, offsetX), scaleX)]]

ScalePose(pose, scaleY, scaleX, offsetY, offsetX) ==
    [pose EXCEPT !.keypoints =
        [k \in 1..Len(pose.keypoints) |->
            ScaleKeypoint(pose.keypoints[k], scaleY, scaleX, offsetY, offsetX)]]

ScalePoses(poses, scaleY, scaleX, offsetY, offsetX) ==
    [i \in 1..Len(poses) |->
        ScalePose(poses[i], scaleY, scaleX, offsetY, offsetX)]

FlipPose(pose, imageWidth) ==
    [pose EXCEPT !.keypoints =
        [k \in 1..Len(pose.keypoints) |->
            [pose.keypoints[k] EXCEPT !.position.x =
                IntMinusRat(imageWidth - 1, pose.keypoints[k].position.x)]]]

FlipPosesHorizontal(poses, imageWidth) ==
    [i \in 1..Len(poses) |-> FlipPose(poses[i], imageWidth)]

(***************************************************************************)
(* PoseNet.estimatePoses.                                                  *)
(***************************************************************************)
\* the two assertions that open estimatePoses
EstimateChecks(baseModel) ==
    IF AssertValidOutputStride(baseModel.outputStride) # NoValue
    THEN AssertValidOutputStride(baseModel.outputStride)
    ELSE AssertValidResolution(baseModel.inputResolution,
                               baseModel.outputStride)

\* where an invocation keeps its locals: each invocation has its own
FrameOfShared(c) == 1

FrameOf(c) == c

\* the decode dispatch on config.decodingMethod
DecodePosesCapByRadius(config, f, buffers, outputStride) ==
    IF config.decodingMethod = "multi-person"
    THEN DecodeMultiplePoses(buffers[1], buffers[2], buffers[3], buffers[4],
                             outputStride, config.nmsRadius,
                             config.scoreThreshold, config.nmsRadius)
    ELSE <<DecodeSinglePose(f.heatmapScores, f.offsets, outputStride)>>

DecodePoses(config, f, buffers, outputStride) ==
    IF config.decodingMethod = "multi-person"
    THEN DecodeMultiplePoses(buffers[1], buffers[2], buffers[3], buffers[4],
                             outputStride, config.maxDetections,
                             config.scoreThreshold, config.nmsRadius)
    ELSE <<DecodeSinglePose(f.heatmapScores, f.offsets, outputStride)>>

ScaleYNoPadBottom(height, padTop, padBottom, resizedHeight) ==
    <<height + padTop, resizedHeight>>

ScaleY(height, padTop, padBottom, resizedHeight) ==
    <<height + padTop + padBottom, resizedHeight>>

ScaleX(width, padLeft, padRight, resizedWidth) ==
    <<width + padLeft + padRight, resizedWidth>>

ScaleYFromWidth(f) == ScaleY(f.width, f.padTop, f.padBottom, f.resizedHeight)

\* scaleY as estimatePoses computes it from its locals
FrameScaleY(f) == ScaleY(f.height, f.padTop, f.padBottom, f.resizedHeight)

FrameScaleX(f) == ScaleX(f.width, f.padLeft, f.padRight, f.resizedWidth)

\* scalePoses(...) and the optional flip
ScaledPoses(f, poses) ==
    LET scaled == ScalePoses(poses, FrameScaleY(f), FrameScaleX(f),
                             -f.padTop, -f.padLeft)
    IN IF f.config.flipHorizontal
       THEN FlipPosesHorizontal(scaled, f.width) ELSE scaled

\* the four output tensors an invocation holds
Outputs(f) ==
    {f.heatmapScores, f.offsets, f.displacementFwd, f.displacementBwd}

\* the four dispose() calls that end estimatePoses
ReleaseOutputsButLast(f) == {f.heatmapScores, f.offsets, f.displacementFwd}

ReleaseOutputs(f) ==
    {f.heatmapScores, f.offsets, f.displacementFwd, f.displacementBwd}

\* the locals of an invocation when it reaches its first await
NewFrame(c, baseModel, input, config) ==
    LET dims == GetInputTensorDimensions(input)
        res == baseModel.inputResolution
        pr == PadAndResizeTo(c, input, <<res, res>>)
        outputs == Predict(baseModel, c, input)
    IN [input |-> input, config |-> config,
        outputStride |-> baseModel.outputStride,
        height |-> dims[1], width |-> dims[2],
        resizedHeight |-> res, resizedWidth |-> res,
        padTop |-> pr.paddedBy[1][1], padBottom |-> pr.paddedBy[1][2],
        padLeft |-> pr.paddedBy[2][1], padRight |-> pr.paddedBy[2][2],
        heatmapScores |-> outputs.heatmapScores,
        offsets |-> outputs.offsets,
        displacementFwd |-> outputs.displacementFwd,
        displacementBwd |-> outputs.displacementBwd,
        decoded |-> <<>>, poses |-> <<>>]

\* estimatePoses from the call to its first await.  The caller holds a
\* model and has not disposed it: what predict does on released weights is
\* the base model's business and is not modelled.
EstimatePosesStart(c, input, config) ==
    /\ pc[c] = "idle"
    /\ model # NoValue
    /\ WeightsTensor \in tensors
    /\ args' = [args EXCEPT ![c] = [input |-> input, config |-> config]]
    /\ LET baseModel == model.baseModel
           check == EstimateChecks(baseModel)
       IN IF check # NoValue
          THEN /\ pc' = [pc EXCEPT ![c] = "rejected"]
               /\ result' = [result EXCEPT ![c] = check]
               /\ trace' = [trace EXCEPT ![c] = <<"assert">>]
               /\ UNCHANGED <<tensors, frames>>
          ELSE LET res == baseModel.inputResolution
                   pr == PadAndResizeTo(c, input, <<res, res>>)
                   f == NewFrame(c, baseModel, input, config)
                   allocated == pr.intermediates \cup {pr.resized}
                                   \cup Outputs(f)
               IN /\ tensors' = tensors \cup Tidy(allocated, Outputs(f))
                  /\ frames' = [frames EXCEPT ![FrameOf(c)] = f]
                  /\ pc' = [pc EXCEPT ![c] = "awaitBuffers"]
                  /\ trace' = [trace EXCEPT ![c] =
                        <<"assert", "padAndResizeTo", "predict",
                          "toTensorBuffers3D", "await">>]
                  /\ UNCHANGED result
    /\ UNCHANGED <<tfRuntime, loadCall, model, disposals, disposeRaised>>

\* the rest of estimatePoses once the decoded poses are at hand
Finish(c, f, poses) ==
    /\ frames' = [frames EXCEPT ![FrameOf(c)] = [f EXCEPT !.poses = poses]]
    /\ result' = [result EXCEPT ![c] =
                     [kind |-> "poses", poses |-> ScaledPoses(f, poses)]]
    /\ tensors' = tensors \ ReleaseOutputs(f)
    /\ pc' = [pc EXCEPT ![c] = "resolved"]

\* after `await toTensorBuffers3D(...)`: the decoder is called and awaited
BuffersReadyNoAwait(c) ==
    /\ pc[c] = "awaitBuffers"
    /\ LET f == frames[FrameOf(c)]
           buffers == ToTensorBuffers3D(<<f.heatmapScores, f.offsets,
                                          f.displacementFwd,
                                          f.displacementBwd>>)
       IN Finish(c, f, DecodePoses(f.config, f, buffers, f.outputStride))
    /\ trace' = [trace EXCEPT ![c] =
                    @ \o <<"decode", "scalePoses", "dispose", "return">>]
    /\ UNCHANGED <<tfRuntime, loadCall, model, args, disposals,
                   disposeRaised>>

BuffersReady(c) ==
    /\ pc[c] = "awaitBuffers"
    /\ LET f == frames[FrameOf(c)]
           buffers == ToTensorBuffers3D(<<f.heatmapScores, f.offsets,
                                          f.displacementFwd,
                                          f.displacementBwd>>)
       IN frames' = [frames EXCEPT ![FrameOf(c)] =
             [f EXCEPT !.decoded =
                 DecodePoses(f.config, f, buffers, f.outputStride)]]
    /\ pc' = [pc EXCEPT ![c] = "awaitDecode"]
    /\ trace' = [trace EXCEPT ![c] = @ \o <<"decode", "await">>]
    /\ UNCHANGED <<tfRuntime, loadCall, model, tensors, args, result,
                   disposals, disposeRaised>>

\* after `await decode...(...)`: scale, flip, dispose, return
DecodeReady(c) ==
    /\ pc[c] = "awaitDecode"
    /\ LET f == frames[FrameOf(c)] IN Finish(c, f, f.decoded)
    /\ trace' = [trace EXCEPT ![c] =
                    @ \o <<"scalePoses", "dispose", "return">>]
    /\ UNCHANGED <<tfRuntime, loadCall, model, args, disposals,
                   disposeRaised>>

\* the caller's continuation: the invocation and its locals are gone
EstimateSettled(c) ==
    /\ pc[c] \in {"resolved", "rejected"}
    /\ pc' = [pc EXCEPT ![c] = "idle"]
    /\ frames' = [frames EXCEPT ![FrameOf(c)] = NoValue]
    /\ result' = [result EXCEPT ![c] = NoValue]
    /\ trace' = [trace EXCEPT ![c] = <<>>]
    /\ args' = [args EXCEPT ![c] = NoValue]
    /\ UNCHANGED <<tfRuntime, loadCall, model, tensors, disposals,
                   disposeRaised>>

(***************************************************************************)
(* PoseNet.dispose.                                                        *)
(***************************************************************************)
\* baseModel.dispose(): releases the weights; a released tensor's dispose
\* is a no-op
BaseModelDispose(ts) == [tensors |-> ts \ {WeightsTensor}, raised |-> FALSE]

DisposeChecked ==
    /\ model # NoValue
    /\ disposals < MaxDisposals
    /\ tensors' = tensors \ {WeightsTensor}
    /\ disposeRaised' = (disposeRaised \/ WeightsTensor \notin tensors)
    /\ disposals' = disposals + 1
    /\ UNCHANGED <<tfRuntime, loadCall, model, pc, args, frames, result,
                   trace>>

Dispose ==
    /\ model # NoValue
    /\ disposals < MaxDisposals
    /\ LET r == BaseModelDispose(tensors)
       IN /\ tensors' = r.tensors
          /\ disposeRaised' = (disposeRaised \/ r.raised)
    /\ disposals' = disposals + 1
    /\ UNCHANGED <<tfRuntime, loadCall, model, pc, args, frames, result,
                   trace>>

(***************************************************************************)
(* Specifications.                                                         *)
(***************************************************************************)
IdleCalls ==
    /\ pc = [c \in Calls |-> "idle"]
    /\ args = [c \in Calls |-> NoValue]
    /\ frames = [c \in Calls |-> NoValue]
    /\ result = [c \in Calls |-> NoValue]
    /\ trace = [c \in Calls |-> <<>>]
    /\ disposals = 0
    /\ disposeRaised = FALSE

Init ==
    /\ tfRuntime \in {"present", "null"}
    /\ loadCall = IdleLoad
    /\ model = NoValue
    /\ tensors = {}
    /\ IdleCalls

Estimate(c) ==
    \E input \in CallInputs, config \in CallConfigs :
        EstimatePosesStart(c, input, config)

Next ==
    \/ Load
    \/ LoadResNetResume
    \/ MobilenetLoaderResume
    \/ LoadMobileNetResume
    \/ LoadSettled
    \/ \E c \in Calls : Estimate(c)
    \/ \E c \in Calls : BuffersReady(c)
    \/ \E c \in Calls : DecodeReady(c)
    \/ \E c \in Calls : EstimateSettled(c)
    \/ Dispose

Spec == Init /\ [][Next]_vars

\* every model handle load can resolve to
LoadableModels ==
    {NewPoseNet(NewResNet(config)) :
        config \in {cfg \in ModelConfig :
            /\ cfg.architecture = "ResNet50"
            /\ LoadResNetChecks("present", cfg) = NoValue}}
    \cup
    {NewPoseNet(NewMobileNet(config)) :
        config \in {cfg \in ModelConfig :
            /\ cfg.architecture = "MobileNetV1"
            /\ LoadMobileNetChecks("present", cfg) = NoValue}}

\* one inference at a time on a loaded model, over all the inputs
InitLoaded ==
    /\ tfRuntime = "present"
    /\ loadCall = IdleLoad
    /\ model \in LoadableModels
    /\ tensors = {WeightsTensor}
    /\ IdleCalls

EstimateOne ==
    \E input \in Inputs, config \in InferenceConfigs :
        EstimatePosesStart(1, input, config)

NextInference ==
    \/ EstimateOne
    \/ BuffersReady(1)
    \/ DecodeReady(1)
    \/ EstimateSettled(1)

SpecInference == InitLoaded /\ [][NextInference]_vars

(***************************************************************************)
(* Properties.                                                             *)
(***************************************************************************)
Ended(c) == pc[c] \in {"idle", "resolved", "rejected"}
InFlight(c) == pc[c] \in {"awaitBuffers", "awaitDecode"}
OwnedBy(c) == {t \in tensors : t.owner = c}
Awaits(tr) == Cardinality({i \in 1..Len(tr) : tr[i] = "await"})

\* the combinations the configuration contract calls supported
SupportedConfig(config) ==
    CASE config.architecture = "ResNet50" ->
            /\ config.outputStride \in {32}
            /\ config.inputResolution \in {257, 513}
      [] config.architecture = "MobileNetV1" ->
            /\ config.outputStride \in VALID_OUTPUT_STRIDES
            /\ (config.inputResolution - 1) % config.outputStride = 0
            /\ config.multiplier.type = "number"
            /\ NumberToString(config.multiplier.value) \in possibleMultipliers
      [] OTHER -> FALSE

\* C1: with the runtime present and a known architecture, load of a
\* supported configuration is not rejected, and load of a configuration with
\* an unsupported output stride, input resolution or multiplier is rejected
\* before any checkpoint is fetched or model built.
C1_LoadValidatesConfiguration ==
    (/\ tfRuntime = "present"
     /\ loadCall.pc # "idle"
     /\ loadCall.config.architecture \in {"ResNet50", "MobileNetV1"})
    => IF SupportedConfig(loadCall.config)
       THEN loadCall.pc # "rejected"
       ELSE loadCall.pc = "rejected" /\ loadCall.steps = <<>>

\* C2: load either resolves to a PoseNet wrapping the base model of the
\* requested architecture or is rejected with an error; it never resolves
\* to anything else.
C2_LoadResolvesToHandleOrFails ==
    /\ loadCall.pc = "rejected" => loadCall.result.kind = "error"
    /\ loadCall.pc = "resolved" =>
          /\ loadCall.result.kind = "PoseNet"
          /\ loadCall.result.baseModel.kind =
                (IF loadCall.config.architecture = "ResNet50"
                 THEN "ResNet" ELSE "MobileNet")

\* C3: a load or estimatePoses call that fails has failed with an error
\* raised by its opening checks, before any expensive step of that call
\* (checkpoint fetch, graph-model load, pad/resize, predict, tensor
\* materialization, decoding), and has produced no model, no tensor and no
\* poses; a call that got past its checks does not fail.
C3_FailuresPrecedeExpensiveWork ==
    /\ loadCall.pc = "rejected" =>
          /\ loadCall.result.kind = "error"
          /\ loadCall.steps = <<>>
          /\ loadCall.net = NoValue
    /\ loadCall.steps # <<>> => loadCall.pc # "rejected"
    /\ \A c \in Calls :
          /\ pc[c] = "rejected" =>
                /\ result[c].kind = "error"
                /\ trace[c] = <<"assert">>
                /\ OwnedBy(c) = {}
          /\ pc[c] = "resolved" => result[c].kind = "poses"
          /\ Len(trace[c]) > 1 => pc[c] # "rejected"

C3_Witness ==
    \E c \in Calls : pc[c] = "rejected" /\ result[c].kind = "error"

\* C7: once an estimatePoses call has ended, by returning or by raising,
\* none of the tensors it allocated is live, so between calls only the
\* model's own tensors are live; while it runs it holds its four outputs only.
C7_CallTensorsReleased ==
    /\ \A c \in Calls : Ended(c) => OwnedBy(c) = {}
    /\ \A c \in Calls : InFlight(c) => Cardinality(OwnedBy(c)) = 4
    /\ (\A c \in Calls : Ended(c)) => tensors \subseteq {WeightsTensor}

C7_Witness ==
    /\ \E c \in Calls : pc[c] = "resolved" /\ Len(result[c].poses) > 0
    /\ \E c \in Calls : pc[c] = "rejected" \/ InFlight(c)

EstimateAlone(c, m, input, config) ==
    LET f == NewFrame(c, m.baseModel, input, config)
        buffers == ToTensorBuffers3D(<<f.heatmapScores, f.offsets,
                                       f.displacementFwd, f.displacementBwd>>)
    IN ScaledPoses(f, DecodePoses(config, f, buffers, f.outputStride))

\* C9: however two estimatePoses calls interleave at their awaits, each
\* one's locals stay those it computed from its own arguments, its output
\* tensors stay its own and live until it releases them, and it returns the
\* poses it returns when run alone.
C9_CallsAreIndependent ==
    \A c \in Calls :
       /\ InFlight(c) =>
             /\ frames[FrameOf(c)] # NoValue
             /\ frames[FrameOf(c)].input = args[c].input
             /\ frames[FrameOf(c)].config = args[c].config
             /\ Outputs(frames[FrameOf(c)]) = OwnedBy(c)
       /\ pc[c] = "resolved" =>
             result[c].poses =
                EstimateAlone(c, model, args[c].input, args[c].config)

C9_Witness ==
    \E c, d \in Calls :
       /\ c # d
       /\ pc[c] = "resolved"
       /\ pc[d] = "awaitDecode"
       /\ args[c].input # args[d].input
       /\ args[c].config # args[d].config

\* C10 as claimed: an estimatePoses call that returned poses has suspended
\* exactly once.
C10_SingleSuspension ==
    \A c \in Calls : pc[c] = "resolved" => Awaits(trace[c]) = 1

\* C10 amended: an estimatePoses call that returns poses suspends exactly
\* twice, in both decoding modes: at the await on the tensor buffers, which
\* completes before the decoder is called, and at the await on the decoder's
\* result; scaling, flipping and releasing follow the second await without
\* another suspension.
C10_TwoSuspensions ==
    \A c \in Calls :
       /\ pc[c] = "awaitBuffers" =>
             trace[c] = <<"assert", "padAndResizeTo", "predict",
                          "toTensorBuffers3D", "await">>
       /\ pc[c] = "awaitDecode" =>
             trace[c] = <<"assert", "padAndResizeTo", "predict",
                          "toTensorBuffers3D", "await", "decode", "await">>
       /\ pc[c] = "resolved" =>
             /\ trace[c] = <<"assert", "padAndResizeTo", "predict",
                             "toTensorBuffers3D", "await", "decode", "await",
                             "scalePoses", "dispose", "return">>
             /\ Awaits(trace[c]) = 2

C10_Witness ==
    /\ \E c \in Calls :
          /\ pc[c] = "resolved"
          /\ args[c].config.decodingMethod = "single-person"
    /\ \E c \in Calls :
          /\ pc[c] = "resolved"
          /\ args[c].config.decodingMethod = "multi-person"

(***************************************************************************)
(* Properties of one inference (SpecInference).                            *)
(***************************************************************************)
Resolution == model.baseModel.inputResolution
Height == args[1].input.size[1]
Width == args[1].input.size[2]
PadTop == args[1].input.paddedBy[1][1]
PadBottom == args[1].input.paddedBy[1][2]
PadLeft == args[1].input.paddedBy[2][1]
PadRight == args[1].input.paddedBy[2][2]
\* the keypoints of the decoded poses, as <<pose index, keypoint index>>
DecodedKeypoints ==
    {<<i, k>> \in (1..MaxCandidates) \X (1..2) :
        /\ i <= Len(frames[1].poses)
        /\ k <= Len(frames[1].poses[i].keypoints)}
Decoded(ik) == frames[1].poses[ik[1]].keypoints[ik[2]].position
Returned(ik) == result[1].poses[ik[1]].keypoints[ik[2]].position
AtCentre(ik) ==
    /\ RatEq(Decoded(ik).y, <<Resolution, 2>>)
    /\ RatEq(Decoded(ik).x, <<Resolution, 2>>)

\* C4: every keypoint of every decoded pose is returned at
\* y = (y - padTop) * (height + padTop + padBottom) / resizedHeight and
\* x = (x - padLeft) * (width + padLeft + padRight) / resizedWidth (mirrored
\* to width - 1 - x when flipHorizontal is set); with a 480 x 640 image,
\* resolution 257 and padding 0, 52, 0, 0 the keypoint (100, 100) is
\* returned at (207.0, 249.0), to one decimal.
C4_RescaleFormula ==
    pc[1] = "resolved" =>
       /\ Len(result[1].poses) = Len(frames[1].poses)
       /\ \A ik \in DecodedKeypoints :
             LET y == RatTimes(RatPlusInt(Decoded(ik).y, -PadTop),
                               <<Height + PadTop + PadBottom, Resolution>>)
                 x == RatTimes(RatPlusInt(Decoded(ik).x, -PadLeft),
                               <<Width + PadLeft + PadRight, Resolution>>)
             IN /\ RatEq(Returned(ik).y, y)
                /\ RatEq(Returned(ik).x,
                         IF args[1].config.flipHorizontal
                         THEN IntMinusRat(Width - 1, x) ELSE x)
                /\ (/\ Height = 480 /\ Width = 640 /\ Resolution = 257
                    /\ PadTop = 0 /\ PadBottom = 52
                    /\ PadLeft = 0 /\ PadRight = 0
                    /\ ~args[1].config.flipHorizontal
                    /\ Decoded(ik).y = Rat(100) /\ Decoded(ik).x = Rat(100))
                   => /\ RoundTenths(Returned(ik).y) = 2070
                      /\ RoundTenths(Returned(ik).x) = 2490

C4_Witness ==
    /\ pc[1] = "resolved"
    /\ Height = 480 /\ Width = 640 /\ Resolution = 257
    /\ PadTop = 0 /\ PadBottom = 52 /\ PadLeft = 0 /\ PadRight = 0
    /\ ~args[1].config.flipHorizontal
    /\ \E ik \in DecodedKeypoints :
          /\ Decoded(ik).y = Rat(100) /\ Decoded(ik).x = Rat(100)
          /\ RoundTenths(Returned(ik).y) = 2070

====
